---- MODULE Spec2Model ----
(***************************************************************************)
(* The notebooks and container files of jupyter_pytorch_dev as state       *)
(* machines.                                                               *)
(*                                                                         *)
(*   SpecQuick   the quickstart notebook (second notebook of               *)
(*               demo08_profiler.ipynb): epoch loop, train(), test(),      *)
(*               save, load, predict, its cells run top to bottom.         *)
(*   SpecLoader  one pass over a DataLoader of the quickstart notebook.    *)
(*   SpecNet     one forward pass of NeuralNetwork or seq_modules          *)
(*               (demo04_NeuralNetwork.ipynb), module by module.           *)
(*   SpecProfiler  the profiler notebook (first notebook of                *)
(*               demo08_profiler.ipynb), its cells run in any order.       *)
(*   SpecImage   a container of either image: its CMD is read, the         *)
(*               notebook server parses its options and listens.           *)
(*   SpecBuild   the RUN pip install step of either Dockerfile: the        *)
(*               instruction is read, /bin/sh splits the command, pip      *)
(*               parses its requirements.                                  *)
(*                                                                         *)
(* The framework calls (autograd, optimizer, serialisation) are modelled   *)
(* by what the notebook relies on: tensors are abstracted to their shape,  *)
(* device and an integer value; one unit of value is one learning-rate     *)
(* step.                                                                   *)
(***************************************************************************)
EXTENDS Integers, Sequences, FiniteSets, TLC

VARIABLES
    \* ---- quickstart notebook kernel ----
    qpc,        \* statement the kernel is at
    ip,         \* index into the loop body being run (0 outside a body)
    device,     \* "cuda" if torch.cuda.is_available() else "cpu"
    model,      \* object the name `model` is bound to (an object id)
    optimizer,  \* object whose parameters the SGD optimizer holds
    params,     \* object id -> state_dict (key -> value)
    grad,       \* object id -> .grad of its parameters
    training,   \* object id -> nn.Module.training
    modelDev,   \* object id -> device of its parameters
    t,          \* loop variable of the epoch loop (-1: not yet bound)
    batch,      \* enumerate() index inside train()
    pos,        \* samples the running dataloader iterator has yielded
    X,          \* current batch (X, y): number of samples and device
    pred,       \* result of the last forward pass
    loss,       \* result of the last loss_fn call
    no_grad,    \* inside `with torch.no_grad()`
    file,       \* contents of model.pth
    out,        \* lines printed / values displayed
    \* ---- DataLoader pass ----
    dl,         \* dataloader being iterated
    dlpos,      \* samples yielded so far
    dlX,        \* size of the batch just yielded (0: none yet)
    dlbatches,  \* batches yielded so far
    dlloop,     \* the loop iterating it
    \* ---- one forward pass through a network ----
    net,        \* the network called
    nin,        \* shape of the input tensor
    nx,         \* shape of the tensor passed along (<< >>: the call raised)
    ni,         \* number of modules applied so far
    napplied,   \* the modules applied, in order
    \* ---- building and starting a container image ----
    image,      \* the Dockerfile
    dpc,        \* "build", "run", "listening", "refused" or "error"
    di,         \* characters of the Dockerfile read so far
    lex,        \* state of the instruction being read
    cmd,        \* the image's CMD
    exposed,    \* the ports the image EXPOSEs
    dai,        \* arguments of the command line parsed so far
    server,     \* configuration of the notebook server
    \* ---- profiler notebook kernel ----
    pcell,      \* the cell being run ("idle": none)
    ppi,        \* statements of the cell done so far
    opi,        \* operator events of the running model call done so far
    praised,    \* an exception is propagating out of the cell
    pwith,      \* the with blocks the cell is inside, outermost first
    pmodel,     \* where `model` and `inputs` live ("undefined", "cpu", "cuda")
    has_cuda,   \* a CUDA device is present
    prof,       \* the object the name `prof` is bound to
    clock,      \* the profiler's clock, in ticks since the profile was entered
    shown,      \* the table printed last
    \* ---- docker build: the RUN pip install step ----
    bfile,      \* Dockerfile being built ("none": no build)
    bpc,        \* stage of the step: "read", "sh", "exec", "pip", "done", "error"
    bi,         \* characters (read, sh) or arguments (pip) consumed so far
    run,        \* Dockerfile parser state of the RUN instruction
    sh,         \* /bin/sh tokenizer state of the command
    argv,       \* arguments the shell passes to the program
    stdout,     \* file the shell redirects the program's output to
    requirements \* requirements pip has parsed from its arguments

qvars == <<qpc, ip, device, model, optimizer, params, grad, training, modelDev,
           t, batch, pos, X, pred, loss, no_grad, file, out>>
dlvars == <<dl, dlpos, dlX, dlbatches, dlloop>>
netvars == <<net, nin, nx, ni, napplied>>
dvars == <<image, dpc, di, lex, cmd, exposed, dai, server>>
pvars == <<pcell, ppi, opi, praised, pwith, pmodel, has_cuda, prof, clock, shown>>
bvars == <<bfile, bpc, bi, run, sh, argv, stdout, requirements>>
vars == <<qvars, dlvars, netvars, dvars, pvars, bvars>>

\* what the steps of one part leave alone
notQuick == <<dlvars, netvars, dvars, pvars, bvars>>
notLoader == <<qvars, netvars, dvars, pvars, bvars>>
notNet == <<qvars, dlvars, dvars, pvars, bvars>>
notImage == <<qvars, dlvars, netvars, pvars, bvars>>
notProfiler == <<qvars, dlvars, netvars, dvars, bvars>>
notBuild == <<qvars, dlvars, netvars, dvars, pvars>>

Min(a, b) == IF a < b THEN a ELSE b

-----------------------------------------------------------------------------
(* Bounds of the abstraction *)

\* parameter values are integers modulo ValMod
ValMod == 2
\* a batch's gradient is one of 0..MaxGrad
MaxGrad == 1

(* Program constants *)

batch_size == 64
epochs == 5
\* len(training_data), len(test_data) of FashionMNIST
TrainSize == 60000
TestSize == 10000
\* the training loss is printed every LogEvery batches
LogEvery == 100

-----------------------------------------------------------------------------
(* Datasets and DataLoader *)

DatasetLen(d) == IF d = "train_dataloader" THEN TrainSize ELSE TestSize

\* DataLoader(dataset, batch_size=batch_size): drop_last is left at its
\* default, so the last batch holds what remains.
BatchLen(d, p) == Min(batch_size, DatasetLen(d) - p)

\* len(dataloader)
NumBatches(d) == (DatasetLen(d) + batch_size - 1) \div batch_size

-----------------------------------------------------------------------------
(* NeuralNetwork *)

Linear(i, o) == [type |-> "Linear", in_features |-> i, out_features |-> o]
ReLU == [type |-> "ReLU", in_features |-> 0, out_features |-> 0]
Flatten == [type |-> "Flatten", start_dim |-> 1, end_dim |-> -1]

\* self.linear_relu_stack of the quickstart notebook
linear_relu_stack_mismatch ==
    << Linear(28 * 28, 512), ReLU, Linear(256, 512), ReLU, Linear(512, 10) >>
linear_relu_stack ==
    << Linear(28 * 28, 512), ReLU, Linear(512, 512), ReLU, Linear(512, 10) >>

\* state_dict keys of a Sequential registered under `name`: every Linear at
\* (0-based) position i contributes name.i.weight and name.i.bias, in order.
RECURSIVE StateDictKeys(_, _, _)
StateDictKeys(name, mods, i) ==
    IF i > Len(mods) THEN << >>
    ELSE (IF mods[i].type = "Linear"
          THEN << <<name, i - 1, "weight">>, <<name, i - 1, "bias">> >>
          ELSE << >>) \o StateDictKeys(name, mods, i + 1)

NeuralNetworkKeys == StateDictKeys("linear_relu_stack", linear_relu_stack, 1)

KeySet(ks) == { ks[i] : i \in DOMAIN ks }

\* NeuralNetwork(): freshly initialised parameters (random; `seed` picks them)
NewParams(seed) ==
    [k \in KeySet(NeuralNetworkKeys) |->
        (seed + (CHOOSE i \in DOMAIN NeuralNetworkKeys : NeuralNetworkKeys[i] = k))
            % ValMod]

-----------------------------------------------------------------------------
(* torch.save / torch.load / load_state_dict *)

\* torch.save(state_dict, f): the entries are written in state_dict order
Serialize(sd, order) == [i \in DOMAIN order |-> <<order[i], sd[order[i]]>>]

\* torch.load(f): the dictionary is rebuilt from the entries
Deserialize(f) ==
    [k \in { f[i][1] : i \in DOMAIN f } |->
        f[CHOOSE i \in DOMAIN f : f[i][1] = k][2]]

\* load_state_dict(sd) is strict: keys of the module missing from sd
missing_keys(own, sd) == DOMAIN own \ DOMAIN sd
\* ... and keys of sd the module does not have
unexpected_keys(own, sd) == DOMAIN sd \ DOMAIN own

load_state_dict_keeps_own(own, sd) == own
\* the parameters after a successful load_state_dict(sd): every entry copied
load_state_dict(own, sd) == [k \in DOMAIN own |-> sd[k]]

-----------------------------------------------------------------------------
(* autograd and torch.optim.SGD *)

\* optimizer.zero_grad(): gradients that exist are zeroed (set_to_none=False)
zero_grad(g) == IF g.isNone THEN g ELSE [isNone |-> FALSE, v |-> 0, of |-> {}]

\* loss.backward(): the loss's gradient is ADDED to .grad
backward(g, l) ==
    IF g.isNone THEN [isNone |-> FALSE, v |-> l.g, of |-> {l.x}]
    ELSE [isNone |-> FALSE, v |-> g.v + l.g, of |-> g.of \cup {l.x}]

\* optimizer.step(): p <- p - lr * p.grad for every p with a gradient
sgd_step(p, g) ==
    IF g.isNone THEN p ELSE [k \in DOMAIN p |-> (p[k] - g.v) % ValMod]

-----------------------------------------------------------------------------
(* The quickstart notebook *)

train_body_without_zero_grad ==
    << "to_device", "forward", "loss_fn", "backward", "step", "log" >>
\* body of the `for batch, (X, y)` loop of train()
train_body ==
    << "to_device", "forward", "loss_fn", "zero_grad", "backward", "step", "log" >>

test_body_with_step == << "to_device", "forward", "step", "accum" >>
\* body of the `for X, y` loop of test()
test_body == << "to_device", "forward", "accum" >>

InBody == qpc \in {"train_body", "test_body"}
Body == IF qpc = "train_body" THEN train_body ELSE test_body
\* the statement the kernel is about to run
Stmt == IF InBody THEN Body[ip] ELSE qpc

\* control after a statement of a loop body: the next one, or the loop head
Advance ==
    IF ip < Len(Body)
    THEN ip' = ip + 1 /\ qpc' = qpc
    ELSE ip' = 0 /\ qpc' = (IF qpc = "train_body" THEN "train_for" ELSE "test_for")

\* an exception ends the run of the notebook
Raise == qpc' = "error" /\ ip' = 0

NoTensor == [of |-> 0, x |-> 0, n |-> 0, training |-> FALSE, requires_grad |-> FALSE]
NoLoss == [of |-> 0, x |-> 0, g |-> 0, requires_grad |-> FALSE, item |-> FALSE]
GradNone == [isNone |-> TRUE, v |-> 0, of |-> {}]

Line(s, a, b) == <<s, a, b>>

DLOff == dl = "none" /\ dlpos = 0 /\ dlX = 0 /\ dlbatches = 0 /\ dlloop = "none"
NoLex == [mode |-> "keyword", word |-> << >>, tok |-> << >>, items |-> << >>,
          opened |-> FALSE, closed |-> FALSE]
NoServer == [ip |-> << >>, port |-> 0, open_browser |-> FALSE, allow_root |-> FALSE]
ImageOff ==
    /\ image = "none" /\ dpc = "off" /\ di = 0 /\ lex = NoLex
    /\ cmd = << >> /\ exposed = {} /\ dai = 0 /\ server = NoServer
NoProf == [defined |-> FALSE, active |-> FALSE, activities |-> {},
           record_shapes |-> FALSE, profile_memory |-> FALSE,
           events |-> << >>, stack |-> << >>]
ProfilerOff ==
    /\ pcell = "off" /\ ppi = 0 /\ opi = 0 /\ praised = FALSE /\ pwith = << >>
    /\ pmodel = "undefined" /\ has_cuda = FALSE /\ prof = NoProf
    /\ clock = 0 /\ shown = "none"
NoRun == [mode |-> "keyword", word |-> << >>, text |-> << >>]
NoSh == [mode |-> "blank", tok |-> << >>, words |-> << >>, fd |-> << >>,
         target |-> << >>]
BuildOff ==
    /\ bfile = "none" /\ bpc = "off" /\ bi = 0 /\ run = NoRun /\ sh = NoSh
    /\ argv = << >> /\ stdout = << >> /\ requirements = << >>
NetOff == net = "none" /\ nin = << >> /\ nx = << >> /\ ni = 0 /\ napplied = << >>

\* the kernel with `pc` as its next statement, after the cells up to the
\* definition of test() have run
QuickAt(pc, dev, seed) ==
    /\ qpc = pc /\ ip = 0
    /\ device = dev
    /\ model = 1 /\ optimizer = 1
    /\ params = (1 :> NewParams(seed))
    /\ grad = (1 :> GradNone)
    /\ training = (1 :> TRUE)
    /\ modelDev = (1 :> device)
    /\ t = -1 /\ batch = -1 /\ pos = 0
    /\ X = [len |-> BatchLen("test_dataloader", 0), dev |-> "cpu", idx |-> 1]
    /\ pred = NoTensor /\ loss = NoLoss /\ no_grad = FALSE
    /\ file = << >> /\ out = << >>

InitQuick ==
    /\ \E dev \in {"cuda", "cpu"}, seed \in 0 .. ValMod - 1 : QuickAt("for_t", dev, seed)
    /\ DLOff /\ NetOff /\ ImageOff /\ ProfilerOff /\ BuildOff

\* the quickstart kernel left alone
QuickOff == QuickAt("off", "cpu", 0)

\* range(n) has a value after i (i = -1 before the first)
range_off_by_one(i, n) == i + 1 <= n
range_has_next(i, n) == i + 1 < n

\* for t in range(epochs):
ForEpoch ==
    /\ qpc = "for_t"
    /\ IF range_has_next(t, epochs)
       THEN t' = t + 1 /\ qpc' = "print_epoch"
       ELSE t' = t /\ qpc' = "print_done"
    /\ UNCHANGED <<ip, device, model, optimizer, params, grad, training, modelDev,
                   batch, pos, X, pred, loss, no_grad, file, out, notQuick>>

\* print(f"Epoch {t+1}\n----")
PrintEpoch ==
    /\ qpc = "print_epoch"
    /\ out' = Append(out, Line("Epoch", t + 1, 0))
    /\ qpc' = "train"
    /\ UNCHANGED <<ip, device, model, optimizer, params, grad, training, modelDev,
                   t, batch, pos, X, pred, loss, no_grad, file, notQuick>>

\* train(train_dataloader, model, loss_fn, optimizer): size = ...; model.train()
TrainEnter ==
    /\ qpc = "train"
    /\ training' = [training EXCEPT ![model] = TRUE]
    /\ pos' = 0 /\ batch' = -1
    /\ qpc' = "train_for"
    /\ UNCHANGED <<ip, device, model, optimizer, params, grad, modelDev,
                   t, X, pred, loss, no_grad, file, out, notQuick>>

\* for batch, (X, y) in enumerate(dataloader):
TrainFor ==
    /\ qpc = "train_for"
    /\ IF pos < DatasetLen("train_dataloader")
       THEN /\ X' = [len |-> BatchLen("train_dataloader", pos), dev |-> "cpu",
                     idx |-> batch + 2]
            /\ pos' = pos + BatchLen("train_dataloader", pos)
            /\ batch' = batch + 1
            /\ qpc' = "train_body" /\ ip' = 1
       ELSE /\ qpc' = "test" /\ ip' = 0
            /\ UNCHANGED <<X, pos, batch>>
    /\ UNCHANGED <<device, model, optimizer, params, grad, training, modelDev,
                   t, pred, loss, no_grad, file, out, notQuick>>

\* X, y = X.to(device), y.to(device)
ToDevice ==
    /\ InBody /\ Stmt = "to_device"
    /\ X' = [X EXCEPT !.dev = device]
    /\ Advance
    /\ UNCHANGED <<device, model, optimizer, params, grad, training, modelDev,
                   t, batch, pos, pred, loss, no_grad, file, out, notQuick>>

\* pred = model(X)
Forward ==
    /\ InBody /\ Stmt = "forward"
    /\ IF X.dev = modelDev[model]
       THEN /\ pred' = [of |-> model, x |-> X.idx, n |-> X.len,
                        training |-> training[model], requires_grad |-> ~no_grad]
            /\ Advance
       ELSE pred' = pred /\ Raise
    /\ UNCHANGED <<device, model, optimizer, params, grad, training, modelDev,
                   t, batch, pos, X, loss, no_grad, file, out, notQuick>>

\* loss = loss_fn(pred, y)
LossFn ==
    /\ InBody /\ Stmt = "loss_fn"
    /\ \E g \in 0 .. MaxGrad :
          loss' = [of |-> pred.of, x |-> pred.x, g |-> g,
                   requires_grad |-> pred.requires_grad, item |-> FALSE]
    /\ Advance
    /\ UNCHANGED <<device, model, optimizer, params, grad, training, modelDev,
                   t, batch, pos, X, pred, no_grad, file, out, notQuick>>

\* optimizer.zero_grad()
ZeroGrad ==
    /\ InBody /\ Stmt = "zero_grad"
    /\ grad' = [grad EXCEPT ![optimizer] = zero_grad(@)]
    /\ Advance
    /\ UNCHANGED <<device, model, optimizer, params, training, modelDev,
                   t, batch, pos, X, pred, loss, no_grad, file, out, notQuick>>

\* loss.backward()
Backward ==
    /\ InBody /\ Stmt = "backward"
    /\ IF loss.requires_grad /\ ~loss.item
       THEN grad' = [grad EXCEPT ![loss.of] = backward(@, loss)] /\ Advance
       ELSE grad' = grad /\ Raise
    /\ UNCHANGED <<device, model, optimizer, params, training, modelDev,
                   t, batch, pos, X, pred, loss, no_grad, file, out, notQuick>>

\* optimizer.step()
Step ==
    /\ InBody /\ Stmt = "step"
    /\ params' = [params EXCEPT ![optimizer] = sgd_step(@, grad[optimizer])]
    /\ Advance
    /\ UNCHANGED <<device, model, optimizer, grad, training, modelDev,
                   t, batch, pos, X, pred, loss, no_grad, file, out, notQuick>>

\* if batch % 100 == 0: loss, current = loss.item(), batch * len(X); print(...)
Log ==
    /\ InBody /\ Stmt = "log"
    /\ IF batch % LogEvery = 0
       THEN /\ loss' = [loss EXCEPT !.item = TRUE]
            /\ out' = Append(out, Line("loss", batch * X.len,
                                       DatasetLen("train_dataloader")))
       ELSE UNCHANGED <<loss, out>>
    /\ Advance
    /\ UNCHANGED <<device, model, optimizer, params, grad, training, modelDev,
                   t, batch, pos, X, pred, no_grad, file, notQuick>>

\* test(test_dataloader, model, loss_fn): size, num_batches; model.eval();
\* test_loss, correct = 0, 0; with torch.no_grad():
TestEnter ==
    /\ qpc = "test"
    /\ training' = [training EXCEPT ![model] = FALSE]
    /\ no_grad' = TRUE
    /\ pos' = 0
    /\ qpc' = "test_for"
    /\ UNCHANGED <<ip, device, model, optimizer, params, grad, modelDev,
                   t, batch, X, pred, loss, file, out, notQuick>>

\* for X, y in dataloader:   (leaving the loop leaves the no_grad block)
TestFor ==
    /\ qpc = "test_for"
    /\ IF pos < DatasetLen("test_dataloader")
       THEN /\ X' = [len |-> BatchLen("test_dataloader", pos), dev |-> "cpu",
                     idx |-> (pos \div batch_size) + 1]
            /\ pos' = pos + BatchLen("test_dataloader", pos)
            /\ qpc' = "test_body" /\ ip' = 1
            /\ UNCHANGED no_grad
       ELSE /\ qpc' = "test_print" /\ ip' = 0
            /\ no_grad' = FALSE
            /\ UNCHANGED <<X, pos>>
    /\ UNCHANGED <<device, model, optimizer, params, grad, training, modelDev,
                   t, batch, pred, loss, file, out, notQuick>>

\* test_loss += loss_fn(pred, y).item(); correct += (pred.argmax(1) == y)...
Accum ==
    /\ InBody /\ Stmt = "accum"
    /\ Advance
    /\ UNCHANGED <<device, model, optimizer, params, grad, training, modelDev,
                   t, batch, pos, X, pred, loss, no_grad, file, out, notQuick>>

\* test_loss /= num_batches; correct /= size; print("Test Error: ...")
TestPrint ==
    /\ qpc = "test_print"
    /\ out' = Append(out, Line("Test Error", 0, 0))
    /\ qpc' = "for_t"
    /\ UNCHANGED <<ip, device, model, optimizer, params, grad, training, modelDev,
                   t, batch, pos, X, pred, loss, no_grad, file, notQuick>>

\* print("Done!")
PrintDone ==
    /\ qpc = "print_done"
    /\ out' = Append(out, Line("Done!", 0, 0))
    /\ qpc' = "save"
    /\ UNCHANGED <<ip, device, model, optimizer, params, grad, training, modelDev,
                   t, batch, pos, X, pred, loss, no_grad, file, notQuick>>

\* torch.save(model.state_dict(), "model.pth"); print("Saved ...")
Save ==
    /\ qpc = "save"
    /\ file' = Serialize(params[model], NeuralNetworkKeys)
    /\ out' = Append(out, Line("Saved PyTorch Model State to model.pth", 0, 0))
    /\ qpc' = "new_model"
    /\ UNCHANGED <<ip, device, model, optimizer, params, grad, training, modelDev,
                   t, batch, pos, X, pred, loss, no_grad, notQuick>>

\* model = NeuralNetwork(): a new module, on the CPU, in training mode; the
\* optimizer keeps the parameters of the module it was built with
NewModel ==
    /\ qpc = "new_model"
    /\ model' = model + 1
    /\ \E seed \in 0 .. ValMod - 1 : params' = params @@ (model' :> NewParams(seed))
    /\ grad' = grad @@ (model' :> GradNone)
    /\ training' = training @@ (model' :> TRUE)
    /\ modelDev' = modelDev @@ (model' :> "cpu")
    /\ qpc' = "load_state_dict"
    /\ UNCHANGED <<ip, device, optimizer, t, batch, pos, X, pred, loss, no_grad,
                   file, out, notQuick>>

\* model.load_state_dict(torch.load("model.pth"))
LoadStateDict ==
    /\ qpc = "load_state_dict"
    /\ LET sd == Deserialize(file) IN
       IF missing_keys(params[model], sd) = {} /\ unexpected_keys(params[model], sd) = {}
       THEN /\ params' = [params EXCEPT ![model] = load_state_dict(@, sd)]
            /\ out' = Append(out, Line("<All keys matched successfully>", 0, 0))
            /\ qpc' = "eval"
       ELSE /\ UNCHANGED <<params, out>>
            /\ qpc' = "error"
    /\ UNCHANGED <<ip, device, model, optimizer, grad, training, modelDev,
                   t, batch, pos, X, pred, loss, no_grad, file, notQuick>>

Eval_left_out ==
    /\ qpc = "eval"
    /\ qpc' = "get_x"
    /\ UNCHANGED <<ip, device, model, optimizer, params, grad, training, modelDev,
                   t, batch, pos, X, pred, loss, no_grad, file, out, notQuick>>
\* model.eval()
Eval ==
    /\ qpc = "eval"
    /\ training' = [training EXCEPT ![model] = FALSE]
    /\ qpc' = "get_x"
    /\ UNCHANGED <<ip, device, model, optimizer, params, grad, modelDev,
                   t, batch, pos, X, pred, loss, no_grad, file, out, notQuick>>

\* x, y = test_data[0][0], test_data[0][1]: one sample, shape [1, 28, 28]
GetX ==
    /\ qpc = "get_x"
    /\ X' = [len |-> 1, dev |-> "cpu", idx |-> 1]
    /\ qpc' = "predict"
    /\ UNCHANGED <<ip, device, model, optimizer, params, grad, training, modelDev,
                   t, batch, pos, pred, loss, no_grad, file, out, notQuick>>

\* with torch.no_grad(): pred = model(x); print(f'Predicted: ...')
Predict ==
    /\ qpc = "predict"
    /\ IF X.dev = modelDev[model]
       THEN /\ pred' = [of |-> model, x |-> X.idx, n |-> X.len,
                        training |-> training[model], requires_grad |-> FALSE]
            /\ out' = Append(out, Line("Predicted", 0, 0))
            /\ qpc' = "end"
       ELSE UNCHANGED <<pred, out>> /\ qpc' = "error"
    /\ UNCHANGED <<ip, device, model, optimizer, params, grad, training, modelDev,
                   t, batch, pos, X, loss, no_grad, file, notQuick>>

NextQuick ==
    \/ ForEpoch \/ PrintEpoch
    \/ TrainEnter \/ TrainFor \/ ToDevice \/ Forward \/ LossFn
    \/ ZeroGrad \/ Backward \/ Step \/ Log
    \/ TestEnter \/ TestFor \/ Accum \/ TestPrint
    \/ PrintDone \/ Save \/ NewModel \/ LoadStateDict \/ Eval \/ GetX \/ Predict

\* the kernel runs a started cell to its end: a statement that can run does
SpecQuick == InitQuick /\ [][NextQuick]_vars /\ WF_vars(NextQuick)

-----------------------------------------------------------------------------
(* Properties of the quickstart notebook *)

InTrain == qpc = "train_body"
TrainSteps == {"to_device", "forward", "loss_fn", "zero_grad", "backward", "step"}

\* C1: in train(), every batch the dataloader yields goes through to(device),
\* model(X), loss_fn, zero_grad, backward, step, once each and in this order,
\* and the gradient a step applies is the gradient of the current batch alone.
C1_TrainStepsInOrder ==
    [][ /\ (qpc = "train_for" /\ pos < DatasetLen("train_dataloader"))
            => (InTrain' /\ Stmt' = "to_device")
        /\ (InTrain /\ Stmt = "to_device")
            => (InTrain' /\ Stmt' = "forward" /\ X'.dev = device)
        /\ (InTrain /\ Stmt = "forward")
            => (InTrain' /\ Stmt' = "loss_fn" /\ pred'.x = X.idx /\ pred'.of = model)
        /\ (InTrain /\ Stmt = "loss_fn")
            => (InTrain' /\ Stmt' = "zero_grad" /\ loss'.x = X.idx)
        /\ (InTrain /\ Stmt = "zero_grad")
            => (InTrain' /\ Stmt' = "backward")
        /\ (InTrain /\ Stmt = "backward")
            => (InTrain' /\ Stmt' = "step")
        /\ (InTrain /\ Stmt = "step")
            => /\ ~grad[optimizer].isNone
               /\ grad[optimizer].of = {X.idx}
               /\ grad[optimizer].v = loss.g
               /\ optimizer = model
               /\ params'[model] =
                     [k \in DOMAIN params[model] |-> (params[model][k] - loss.g) % ValMod]
               /\ ~(InTrain' /\ Stmt' \in TrainSteps)
        /\ (InTrain /\ Stmt \notin TrainSteps)
            => ~(InTrain' /\ Stmt' \in TrainSteps)
      ]_vars

\* a step of the third batch has just applied a non-zero gradient
C1_Witness ==
    /\ InTrain /\ Stmt = "log" /\ batch = 2
    /\ grad[optimizer].of = {X.idx} /\ grad[optimizer].v = MaxGrad

EpochCellDone ==
    qpc \in {"save", "new_model", "load_state_dict", "eval", "get_x", "predict", "end"}

\* the headers, the first loss line of each train() call, the test reports
\* and Done!, in the order printed
Markers(o) ==
    SelectSeq(o, LAMBDA l : l[1] \in {"Epoch", "Test Error", "Done!"}
                            \/ (l[1] = "loss" /\ l[2] = 0))

RECURSIVE AlternatingRuns(_, _)
AlternatingRuns(from, to) ==
    IF from > to THEN << >>
    ELSE << <<"Epoch", from, 0>>, <<"loss", 0, 60000>>, <<"Test Error", 0, 0>> >>
         \o AlternatingRuns(from + 1, to)

\* C2: the epoch cell terminates after exactly 5 iterations; iteration t
\* prints 'Epoch t+1', then train() consumes the whole training dataloader,
\* then test() the whole test dataloader; Done! is printed once, at the end.
C2_EpochCell ==
    /\ <>EpochCellDone
    /\ [](EpochCellDone =>
            /\ t = 4
            /\ Markers(out) = AlternatingRuns(1, 5) \o << <<"Done!", 0, 0>> >>)
    /\ [](qpc = "print_epoch" =>
            Markers(out) = AlternatingRuns(1, t))
    /\ [](qpc = "test" =>
            /\ pos = DatasetLen("train_dataloader")
            /\ batch + 1 = NumBatches("train_dataloader")
            /\ Markers(out) = AlternatingRuns(1, t) \o
                    << <<"Epoch", t + 1, 0>>, <<"loss", 0, 60000>> >>)
    /\ [](qpc = "test_print" => pos = DatasetLen("test_dataloader"))
    /\ [](qpc \notin {"error"})

\* the cell is over: five test reports, then Done!
C2_Witness ==
    /\ qpc = "save" /\ t = 4
    /\ Len(SelectSeq(out, LAMBDA l : l[1] = "Test Error")) = 5
    /\ out[Len(out)] = <<"Done!", 0, 0>>

AfterLoad == qpc \in {"eval", "get_x", "predict", "end"}
AfterSave == qpc \in {"new_model", "load_state_dict"} \/ AfterLoad

\* C5: after torch.save(model.state_dict(), "model.pth") and
\* load_state_dict(torch.load("model.pth")) into a fresh NeuralNetwork, the new
\* model's keys are the saved keys (all keys matched) and every parameter has
\* the value the trained model had when it was saved.
C5_SaveLoadRoundTrip ==
    /\ qpc # "error"
    /\ AfterSave =>
          \* the file holds the trained model (the one the optimizer updates,
          \* unchanged since the save) entry by entry
          /\ { file[i][1] : i \in DOMAIN file } = DOMAIN params[optimizer]
          /\ \A i \in DOMAIN file : file[i][2] = params[optimizer][file[i][1]]
    /\ AfterLoad =>
          /\ model # optimizer
          /\ DOMAIN params[model] = { file[i][1] : i \in DOMAIN file }
          /\ Cardinality(DOMAIN params[model]) = Len(file)
          /\ \A k \in DOMAIN params[model] : params[model][k] = params[optimizer][k]
          /\ out[Len(out) - (IF qpc = "end" THEN 1 ELSE 0)]
                = <<"<All keys matched successfully>", 0, 0>>

\* the load cell has run: the new model holds the six saved parameters
C5_Witness ==
    /\ qpc = "eval" /\ model = 2
    /\ Len(file) = 6
    /\ params[2] = params[1]
    /\ params[1][<<"linear_relu_stack", 0, "weight">>] = 1
    /\ params[1][<<"linear_relu_stack", 4, "bias">>] = 0

InTest == qpc \in {"test", "test_for", "test_body", "test_print"}

\* C11: test() only evaluates: no step taken inside test() changes a parameter,
\* a gradient or the optimizer; its loop body runs neither backward, zero_grad
\* nor step, and each of its forward passes runs under torch.no_grad().
C11_TestOnlyEvaluates ==
    [][InTest =>
         /\ params' = params /\ grad' = grad /\ optimizer' = optimizer
         /\ qpc = "test_body" =>
               /\ Stmt \notin {"backward", "zero_grad", "step"}
               /\ no_grad
               /\ Stmt = "accum" => ~pred.requires_grad]_vars

\* test() has run over the whole test set while the optimizer still holds the
\* non-zero gradient of the last training batch
C11_Witness ==
    /\ qpc = "test_print" /\ pos = DatasetLen("test_dataloader")
    /\ ~grad[optimizer].isNone /\ grad[optimizer].v # 0
    /\ ~pred.requires_grad /\ ~pred.training

\* C12: every forward pass in train() runs in training mode and every forward
\* pass in test() in evaluation mode; after the epoch loop the model is in
\* evaluation mode; the prediction cell puts the newly loaded model in
\* evaluation mode before its forward pass.
C12_ModeOfForwardPass ==
    /\ (qpc = "train_body" /\ Stmt = "forward") => training[model]
    /\ (qpc = "train_body" /\ ip > 2) => (pred.training /\ pred.of = model)
    /\ (qpc = "test_body" /\ Stmt = "forward") => ~training[model]
    /\ (qpc = "test_body" /\ ip > 2) => (~pred.training /\ pred.of = model)
    /\ qpc \in {"print_done", "save"} => ~training[model]
    /\ qpc = "predict" => (model # optimizer /\ ~training[model])
    /\ qpc = "end" => (pred.of = model /\ ~pred.training)

\* the prediction has been made by the newly loaded model
C12_Witness ==
    /\ qpc = "end" /\ model = 2 /\ pred.of = 2 /\ pred.n = 1
    /\ ~pred.training /\ ~training[1] /\ ~training[2]

-----------------------------------------------------------------------------
(* One pass over a DataLoader *)

\* the loops of the quickstart notebook over a dataloader: the loop of the
\* DataLoader cell (which breaks after the first batch), train() and test()
Loops == [cell |-> "test_dataloader", train |-> "train_dataloader",
          test |-> "test_dataloader"]

InitLoader ==
    /\ \E l \in DOMAIN Loops : dlloop = l /\ dl = Loops[l]
    /\ dlpos = 0 /\ dlX = 0 /\ dlbatches = 0
    /\ QuickOff /\ NetOff /\ ImageOff /\ ProfilerOff /\ BuildOff

\* next(iterator): the next batch
DLNext ==
    /\ dlloop \in DOMAIN Loops
    /\ dlpos < DatasetLen(dl)
    /\ dlX' = BatchLen(dl, dlpos)
    /\ dlpos' = dlpos + BatchLen(dl, dlpos)
    /\ dlbatches' = dlbatches + 1
    /\ dlloop' = (IF dlloop = "cell" THEN "break" ELSE dlloop)
    /\ UNCHANGED <<dl, notLoader>>

\* StopIteration: the dataset is exhausted
DLStop ==
    /\ dlloop \in DOMAIN Loops
    /\ dlpos >= DatasetLen(dl)
    /\ dlloop' = "exhausted"
    /\ UNCHANGED <<dl, dlpos, dlX, dlbatches, notLoader>>

\* print the shapes; break
DLBreak ==
    /\ dlloop = "break"
    /\ dlloop' = "done"
    /\ UNCHANGED <<dl, dlpos, dlX, dlbatches, notLoader>>

NextLoader == DLNext \/ DLStop \/ DLBreak

SpecLoader == InitLoader /\ [][NextLoader]_vars

\* C3: with batch_size = 64 every element yielded by train_dataloader and by
\* test_dataloader is a batch of exactly 64 features and 64 labels.
C3_EveryBatchHas64 == dlbatches > 0 => dlX = 64

-----------------------------------------------------------------------------
(* Forward passes: tensors as shapes *)

\* largest minibatch size tried besides the notebooks' own
MaxN == 4

RECURSIVE Prod(_)
Prod(s) == IF s = << >> THEN 1 ELSE s[1] * Prod(Tail(s))

\* nn.Flatten(start_dim, end_dim): dimensions start_dim..end_dim (0-based,
\* negative counts from the end) become one; fewer dimensions is an error
FlattenShape(m, s) ==
    LET first == m.start_dim + 1
        last == IF m.end_dim < 0 THEN Len(s) + m.end_dim + 1 ELSE m.end_dim + 1
    IN IF first > Len(s) \/ last > Len(s) \/ last < first THEN << >>
       ELSE SubSeq(s, 1, first - 1) \o << Prod(SubSeq(s, first, last)) >>
            \o SubSeq(s, last + 1, Len(s))

\* nn.Linear(in_features, out_features): the last dimension must be
\* in_features and becomes out_features
LinearShape(m, s) ==
    IF s # << >> /\ s[Len(s)] = m.in_features
    THEN [s EXCEPT ![Len(s)] = m.out_features]
    ELSE << >>

\* module(input)
Apply(m, s) ==
    IF s = << >> THEN << >>
    ELSE IF m.type = "Flatten" THEN FlattenShape(m, s)
    ELSE IF m.type = "Linear" THEN LinearShape(m, s)
    ELSE s

\* self.linear_relu_stack of the network notebook
linear_relu_stack_nn ==
    << Linear(28 * 28, 512), ReLU, Linear(512, 512), ReLU, Linear(512, 10) >>

\* layer1 = nn.Linear(in_features=28*28, out_features=20)
layer1 == Linear(28 * 28, 20)

seq_modules_relu_last == << Flatten, layer1, Linear(20, 10), ReLU >>
\* seq_modules = nn.Sequential(flatten, layer1, nn.ReLU(), nn.Linear(20, 10))
seq_modules == << Flatten, layer1, ReLU, Linear(20, 10) >>

\* the modules a call of the network runs through, in order:
\* NeuralNetwork.forward is self.flatten, then self.linear_relu_stack
Modules(n) ==
    IF n = "seq_modules" THEN seq_modules
    ELSE IF n = "NeuralNetwork_nn" THEN << Flatten >> \o linear_relu_stack_nn
    ELSE << Flatten >> \o linear_relu_stack

\* input_image = torch.rand(3, 28, 28)
input_image == << 3, 28, 28 >>

\* the inputs the networks are called on: torch.rand(N, 28, 28) and the
\* dataloader's [N, 1, 28, 28]
Inputs(n) ==
    IF n = "seq_modules" THEN { input_image }
    ELSE { << N, 28, 28 >> : N \in (1 .. MaxN) \cup {batch_size} }
         \cup { << N, 1, 28, 28 >> : N \in (1 .. MaxN) \cup {batch_size} }

InitNet ==
    /\ net \in {"seq_modules", "NeuralNetwork_nn", "NeuralNetwork"}
    /\ nin \in Inputs(net)
    /\ nx = nin /\ ni = 0 /\ napplied = << >>
    /\ QuickOff /\ DLOff /\ ImageOff /\ ProfilerOff /\ BuildOff

\* nn.Sequential.forward: for module in self: input = module(input)
\* (NeuralNetwork.forward: x = self.flatten(x), then the stack)
NetApply ==
    /\ net # "none" /\ ni < Len(Modules(net))
    /\ nx # << >>
    /\ nx' = Apply(Modules(net)[ni + 1], nx)
    /\ napplied' = Append(napplied, Modules(net)[ni + 1])
    /\ ni' = ni + 1
    /\ UNCHANGED <<net, nin, notNet>>

\* return logits
NetReturn ==
    /\ net # "none" /\ ni = Len(Modules(net))
    /\ ni' = ni + 1
    /\ UNCHANGED <<net, nin, nx, napplied, notNet>>

NextNet == NetApply \/ NetReturn

SpecNet == InitNet /\ [][NextNet]_vars

IsNeuralNetwork == net \in {"NeuralNetwork_nn", "NeuralNetwork"}
Returned == net # "none" /\ ni = Len(Modules(net)) + 1

\* the stack is Linear, ReLU, ..., Linear: each Linear's out_features is the
\* next Linear's in_features, and no ReLU follows the last Linear
Chained(stack, sizes) ==
    /\ Len(stack) = 2 * Len(sizes) - 3
    /\ \A i \in 1 .. Len(stack) :
          IF i % 2 = 1
          THEN stack[i] = [type |-> "Linear", in_features |-> sizes[(i + 1) \div 2],
                           out_features |-> sizes[(i + 1) \div 2 + 1]]
          ELSE stack[i].type = "ReLU"

\* C4: NeuralNetwork.forward on [N, 28, 28] or [N, 1, 28, 28] returns logits
\* of shape [N, 10]: flatten gives [N, 784], the Linear layers chain
\* 784->512, 512->512, 512->10 with a ReLU between them and none at the end.
C4_ForwardShape ==
    IsNeuralNetwork =>
        /\ nx # << >>
        /\ ni >= 1 => napplied[1].type = "Flatten"
        /\ ni = 1 => nx = << nin[1], 784 >>
        /\ Returned => nx = << nin[1], 10 >>
        /\ Chained(SubSeq(Modules(net), 2, Len(Modules(net))), << 784, 512, 512, 10 >>)

\* a call on a 4-dimensional minibatch of several samples has returned
C4_Witness ==
    /\ IsNeuralNetwork /\ Returned
    /\ Len(nin) = 4 /\ nin[1] > 1 /\ nx = << nin[1], 10 >>

\* C10: seq_modules applies flatten, layer1 (784->20), ReLU, Linear(20, 10),
\* once each and in that order: [3, 28, 28] becomes [3, 784], [3, 20],
\* [3, 20], [3, 10].
C10_SequentialOrder ==
    net = "seq_modules" =>
        /\ nx = << << 3, 28, 28 >>, << 3, 784 >>, << 3, 20 >>, << 3, 20 >>,
                   << 3, 10 >>, << 3, 10 >> >>[ni + 1]
        /\ napplied = SubSeq(<< [type |-> "Flatten", start_dim |-> 1, end_dim |-> -1],
                                [type |-> "Linear", in_features |-> 784,
                                 out_features |-> 20],
                                [type |-> "ReLU", in_features |-> 0, out_features |-> 0],
                                [type |-> "Linear", in_features |-> 20,
                                 out_features |-> 10] >>, 1, Min(ni, 4))
        /\ ni <= 5

\* the call of seq_modules has returned the logits
C10_Witness ==
    /\ net = "seq_modules" /\ Returned
    /\ Len(napplied) = 4 /\ nx = << 3, 10 >>

-----------------------------------------------------------------------------
(* The profiler notebook: its cells, run one at a time in any order *)

\* ticks an operator without children may take
MaxTick == 2

Op(name, shapes) == [op |-> name, shapes |-> shapes]
Ret == [op |-> "return", shapes |-> << >>]

\* the operator calls of model(inputs), as the recorded tables nest them:
\* conv2d > convolution > _convolution > mkldnn_convolution, batch_norm >
\* _batch_norm_impl_index > native_batch_norm, max_pool2d >
\* max_pool2d_with_indices; two convolutions with different input shapes
ResnetCall ==
    LET c1 == << << 5, 3, 224, 224 >>, << 64, 3, 7, 7 >> >>
        c2 == << << 5, 64, 56, 56 >>, << 64, 64, 3, 3 >> >>
        b1 == << << 5, 64, 112, 112 >> >>
    IN << Op("aten::conv2d", c1), Op("aten::convolution", c1),
          Op("aten::_convolution", c1), Op("aten::mkldnn_convolution", c1),
          Ret, Ret, Ret, Ret,
          Op("aten::batch_norm", b1), Op("aten::_batch_norm_impl_index", b1),
          Op("aten::native_batch_norm", b1), Ret, Ret, Ret,
          Op("aten::max_pool2d", b1), Op("aten::max_pool2d_with_indices", b1),
          Ret, Ret,
          Op("aten::conv2d", c2), Op("aten::convolution", c2),
          Op("aten::_convolution", c2), Op("aten::mkldnn_convolution", c2),
          Ret, Ret, Ret, Ret >>

cell_cuda_prints_inside ==
    << "to_cuda", "profile_enter", "rf_enter", "call_model", "rf_exit",
       "print_table", "profile_exit" >>
\* the statements of each code cell
cell_model == << "new_model" >>
cell_cpu == << "profile_enter", "rf_enter", "call_model", "rf_exit", "profile_exit" >>
cell_table == << "print_table" >>
cell_group == << "print_group" >>
cell_cuda ==
    << "to_cuda", "profile_enter", "rf_enter", "call_model", "rf_exit",
       "profile_exit", "print_table" >>

Cells == {"model", "cpu", "table", "group", "cuda"}
Cell(c) ==
    CASE c = "model" -> cell_model [] c = "cpu" -> cell_cpu
      [] c = "table" -> cell_table [] c = "group" -> cell_group
      [] c = "cuda" -> cell_cuda

profile_args_cuda_without_shapes(c) ==
    IF c = "cpu"
    THEN [activities |-> {"CPU"}, record_shapes |-> TRUE, profile_memory |-> TRUE]
    ELSE [activities |-> {"CPU", "CUDA"}, record_shapes |-> FALSE,
          profile_memory |-> FALSE]
\* the arguments of profile(...) in the cell
profile_args(c) ==
    IF c = "cpu"
    THEN [activities |-> {"CPU"}, record_shapes |-> TRUE, profile_memory |-> TRUE]
    ELSE [activities |-> {"CPU", "CUDA"}, record_shapes |-> TRUE,
          profile_memory |-> FALSE]

Running == pcell \in Cells
\* the statement the kernel is about to run
PStmt == IF Running /\ ppi < Len(Cell(pcell)) THEN Cell(pcell)[ppi + 1] ELSE "none"
\* the exit of a with block that was entered runs even while an exception
\* propagates; every other statement is passed over
IsExit(st) ==
    /\ pwith # << >>
    /\ \/ st = "rf_exit" /\ pwith[Len(pwith)] = "record_function"
       \/ st = "profile_exit" /\ pwith[Len(pwith)] = "profile"
Ready(st) == PStmt = st /\ opi = 0 /\ (praised => IsExit(st))

\* the kernel after the import cell has run
InitProfiler ==
    /\ pcell = "idle" /\ ppi = 0 /\ opi = 0 /\ praised = FALSE /\ pwith = << >>
    /\ pmodel = "undefined" /\ has_cuda \in BOOLEAN /\ prof = NoProf
    /\ clock = 0 /\ shown = "none"
    /\ QuickOff /\ DLOff /\ NetOff /\ ImageOff /\ BuildOff

\* a cell is submitted for execution
StartCell ==
    /\ pcell = "idle"
    /\ \E c \in Cells : pcell' = c
    /\ ppi' = 0
    /\ UNCHANGED <<opi, praised, pwith, pmodel, has_cuda, prof, clock, shown, notProfiler>>

\* the cell is over (an exception that left it is reported and dropped)
EndCell ==
    /\ Running /\ ppi = Len(Cell(pcell))
    /\ pcell' = "idle" /\ ppi' = 0 /\ praised' = FALSE
    /\ UNCHANGED <<opi, pwith, pmodel, has_cuda, prof, clock, shown, notProfiler>>

\* a statement an exception passes over
Skip ==
    /\ Running /\ praised /\ PStmt # "none" /\ ~IsExit(PStmt)
    /\ ppi' = ppi + 1
    /\ UNCHANGED <<pcell, opi, praised, pwith, pmodel, has_cuda, prof, clock, shown,
                   notProfiler>>

\* model = models.resnet18(); inputs = torch.randn(5, 3, 224, 224)
PNewModel ==
    /\ Ready("new_model")
    /\ pmodel' = "cpu"
    /\ ppi' = ppi + 1
    /\ UNCHANGED <<pcell, opi, praised, pwith, has_cuda, prof, clock, shown, notProfiler>>

\* model = models.resnet18().cuda(); inputs = torch.randn(...).cuda()
ToCuda ==
    /\ Ready("to_cuda")
    /\ IF has_cuda THEN pmodel' = "cuda" /\ praised' = praised
       ELSE pmodel' = pmodel /\ praised' = TRUE
    /\ ppi' = ppi + 1
    /\ UNCHANGED <<pcell, opi, pwith, has_cuda, prof, clock, shown, notProfiler>>

\* with profile(...) as prof:
ProfileEnter ==
    /\ Ready("profile_enter")
    /\ prof' = [defined |-> TRUE, active |-> TRUE,
                activities |-> profile_args(pcell).activities,
                record_shapes |-> profile_args(pcell).record_shapes,
                profile_memory |-> profile_args(pcell).profile_memory,
                events |-> << >>, stack |-> << >>]
    /\ clock' = 0
    /\ pwith' = Append(pwith, "profile")
    /\ ppi' = ppi + 1
    /\ UNCHANGED <<pcell, opi, praised, pmodel, has_cuda, shown, notProfiler>>

\* the event on top of the profiler's stack (0: none)
top_always_root(p) == IF p.stack = << >> THEN 0 ELSE p.stack[1]
Top(p) == IF p.stack = << >> THEN 0 ELSE p.stack[Len(p.stack)]

\* time passes in the code of the event on top of the stack
Spend(evs, e, dt) == IF e = 0 THEN evs ELSE [evs EXCEPT ![e].self = @ + dt]

\* a range or operator begins: the profiler, when active, records an event
\* under the one on top of its stack, after a tick in the caller
Begin(p, name, shapes) ==
    IF ~p.active THEN p
    ELSE [p EXCEPT
            !.events = Append(Spend(@, Top(p), 1),
                              [name |-> name,
                               shapes |-> IF p.record_shapes THEN shapes ELSE << >>,
                               parent |-> Top(p), start |-> clock + 1, end |-> -1,
                               self |-> 0]),
            !.stack = Append(@, Len(p.events) + 1)]

\* the range or operator on top ends after dt ticks of its own
Finish(p, dt) ==
    IF ~p.active \/ p.stack = << >> THEN p
    ELSE [p EXCEPT
            !.events = [Spend(@, Top(p), dt) EXCEPT ![Top(p)].end = clock + dt],
            !.stack = SubSeq(@, 1, Len(@) - 1)]

\* with record_function("model_inference"):
RfEnter ==
    /\ Ready("rf_enter")
    /\ prof' = Begin(prof, "model_inference", << >>)
    /\ clock' = clock + 1
    /\ pwith' = Append(pwith, "record_function")
    /\ ppi' = ppi + 1
    /\ UNCHANGED <<pcell, opi, praised, pmodel, has_cuda, shown, notProfiler>>

\* model(inputs): NameError when the names are not bound
CallModel ==
    /\ Ready("call_model")
    /\ IF pmodel = "undefined"
       THEN praised' = TRUE /\ ppi' = ppi + 1 /\ opi' = 0
       ELSE praised' = praised /\ ppi' = ppi /\ opi' = 1
    /\ UNCHANGED <<pcell, pwith, pmodel, has_cuda, prof, clock, shown, notProfiler>>

\* an operator of the model call begins
OpEnter ==
    /\ Running /\ opi >= 1 /\ opi <= Len(ResnetCall)
    /\ ResnetCall[opi].op # "return"
    /\ prof' = Begin(prof, ResnetCall[opi].op, ResnetCall[opi].shapes)
    /\ clock' = clock + 1
    /\ opi' = opi + 1
    /\ UNCHANGED <<pcell, ppi, praised, pwith, pmodel, has_cuda, shown, notProfiler>>

\* an operator of the model call returns; one that called no other operator
\* did the work, which takes 1..MaxTick ticks
OpExit ==
    /\ Running /\ opi >= 1 /\ opi <= Len(ResnetCall)
    /\ ResnetCall[opi].op = "return"
    /\ \E dt \in 1 .. MaxTick :
          /\ (ResnetCall[opi - 1].op = "return" => dt = 1)
          /\ prof' = Finish(prof, dt)
          /\ clock' = clock + dt
    /\ opi' = opi + 1
    /\ UNCHANGED <<pcell, ppi, praised, pwith, pmodel, has_cuda, shown, notProfiler>>

\* model(inputs) returns
CallReturn ==
    /\ Running /\ opi = Len(ResnetCall) + 1
    /\ opi' = 0
    /\ ppi' = ppi + 1
    /\ UNCHANGED <<pcell, praised, pwith, pmodel, has_cuda, prof, clock, shown, notProfiler>>

\* leaving the record_function block
RfExit ==
    /\ Ready("rf_exit")
    /\ prof' = Finish(prof, 1)
    /\ clock' = clock + 1
    /\ pwith' = SubSeq(pwith, 1, Len(pwith) - 1)
    /\ ppi' = ppi + 1
    /\ UNCHANGED <<pcell, opi, praised, pmodel, has_cuda, shown, notProfiler>>

\* leaving the profile block
ProfileExit ==
    /\ Ready("profile_exit")
    /\ prof' = [prof EXCEPT !.active = FALSE]
    /\ pwith' = SubSeq(pwith, 1, Len(pwith) - 1)
    /\ ppi' = ppi + 1
    /\ UNCHANGED <<pcell, opi, praised, pmodel, has_cuda, clock, shown, notProfiler>>

\* print(prof.key_averages().table(...)): NameError when prof is not bound
PrintTable ==
    /\ Ready("print_table")
    /\ IF prof.defined THEN shown' = "by_name" /\ praised' = praised
       ELSE shown' = shown /\ praised' = TRUE
    /\ ppi' = ppi + 1
    /\ UNCHANGED <<pcell, opi, pwith, pmodel, has_cuda, prof, clock, notProfiler>>

\* print(prof.key_averages(group_by_input_shape=True).table(...))
PrintGroup ==
    /\ Ready("print_group")
    /\ IF prof.defined THEN shown' = "by_input_shape" /\ praised' = praised
       ELSE shown' = shown /\ praised' = TRUE
    /\ ppi' = ppi + 1
    /\ UNCHANGED <<pcell, opi, pwith, pmodel, has_cuda, prof, clock, notProfiler>>

NextProfiler ==
    \/ StartCell \/ EndCell \/ Skip
    \/ PNewModel \/ ToCuda
    \/ ProfileEnter \/ RfEnter \/ CallModel \/ OpEnter \/ OpExit \/ CallReturn
    \/ RfExit \/ ProfileExit
    \/ PrintTable \/ PrintGroup

SpecProfiler == InitProfiler /\ [][NextProfiler]_vars

RECURSIVE Sum(_)
Sum(q) == IF q = << >> THEN 0 ELSE q[1] + Sum(Tail(q))

\* CPU total of an event: from its start to its end
CpuTotal(e) == e.end - e.start

\* key_averages(group_by_input_shape): events are grouped by name, or by
\* name and input shapes
Key(e, by_shape) == << e.name, IF by_shape THEN e.shapes ELSE << >> >>

\* the row of the events with key k
Row(evs, k, by_shape) ==
    LET in_row(i) == Key(evs[i], by_shape) = k IN
    [key |-> k,
     count |-> Cardinality({ i \in DOMAIN evs : in_row(i) }),
     self_cpu_time_total |->
        Sum([i \in DOMAIN evs |-> IF in_row(i) THEN evs[i].self ELSE 0]),
     cpu_time_total |->
        Sum([i \in DOMAIN evs |-> IF in_row(i) THEN CpuTotal(evs[i]) ELSE 0])]

key_averages(p, by_shape) ==
    { Row(p.events, k, by_shape) : k \in { Key(p.events[i], by_shape) : i \in DOMAIN p.events } }

-----------------------------------------------------------------------------
(* Properties of the profiler notebook *)

Finished(p) == p.defined /\ ~p.active

\* CPU total of the operator calls nested directly inside the events of a row
NestedTotal(evs, k, by_shape) ==
    Sum([i \in DOMAIN evs |->
            IF evs[i].parent # 0 /\ Key(evs[evs[i].parent], by_shape) = k
            THEN CpuTotal(evs[i]) ELSE 0])

RowsAddUp(p, by_shape) ==
    \A r \in key_averages(p, by_shape) :
        /\ r.cpu_time_total =
              r.self_cpu_time_total + NestedTotal(p.events, r.key, by_shape)
        /\ r.self_cpu_time_total >= 0
        /\ r.self_cpu_time_total <= r.cpu_time_total
        /\ \A m \in key_averages(p, by_shape) :
              m.key[1] = "model_inference" => m.cpu_time_total >= r.cpu_time_total

\* C7: in the profiler result every row's total CPU time is its self CPU time
\* plus the total CPU time of the operator calls nested inside it, so self <=
\* total, and model_inference's total is at least that of every operator.
C7_SelfPlusNestedIsTotal ==
    Finished(prof) => RowsAddUp(prof, FALSE) /\ RowsAddUp(prof, TRUE)

\* a table of a complete run was printed: conv2d was called twice and spent
\* most of its time in nested calls
C7_Witness ==
    /\ Finished(prof) /\ shown = "by_name" /\ pcell = "idle"
    /\ \E r \in key_averages(prof, FALSE) :
          /\ r.key[1] = "aten::conv2d" /\ r.count = 2
          /\ r.self_cpu_time_total > 0
          /\ r.cpu_time_total > 2 * r.self_cpu_time_total

\* C8: whatever the order of the cells, the prof that
\* key_averages(group_by_input_shape=True) is called on was made by a
\* profile(...) run with record_shapes=True.
C8_GroupingHasShapes ==
    /\ (Ready("print_group") /\ prof.defined) => prof.record_shapes
    /\ shown = "by_input_shape" => prof.record_shapes

\* the group cell is about to read the prof of the CUDA cell
C8_Witness ==
    /\ pcell = "group" /\ Ready("print_group")
    /\ Finished(prof) /\ prof.activities = {"CPU", "CUDA"}
    /\ Cardinality({ r \in key_averages(prof, TRUE) : r.key[1] = "aten::conv2d" }) = 2

IsRange(e) == e.name = "model_inference"

\* C9: in each profiled region profile is entered, then record_function, then
\* the model runs, then record_function exits, then profile: model_inference
\* is recorded once per run, every operator event lies inside it, and
\* key_averages is read only after the profile has exited.
C9_ContextsNested ==
    /\ prof.active <=> (pwith # << >> /\ pwith[1] = "profile")
    /\ pwith \in { << >>, << "profile" >>, << "profile", "record_function" >> }
    /\ opi >= 1 => pwith = << "profile", "record_function" >>
    /\ \A i \in DOMAIN prof.events :
          LET e == prof.events[i] IN
          IF IsRange(e) THEN i = 1 /\ e.parent = 0
          ELSE /\ e.parent # 0
               /\ prof.events[1].start <= e.start
               /\ prof.events[1].end = -1 \/ (e.end # -1 /\ e.end <= prof.events[1].end)
    /\ (Len(pwith) = 2) <=> (prof.events # << >> /\ prof.events[1].end = -1)
    /\ Finished(prof) =>
          /\ \A i \in DOMAIN prof.events : prof.events[i].end # -1
          /\ prof.stack = << >>
          /\ \E r \in key_averages(prof, FALSE) :
                r.key[1] = "model_inference" /\ r.count = 1
    /\ ((Ready("print_table") \/ Ready("print_group")) /\ prof.defined) => ~prof.active

\* the CUDA cell is about to print the averages of its complete run
C9_Witness ==
    /\ pcell = "cuda" /\ Ready("print_table")
    /\ Finished(prof) /\ Len(prof.events) = 14
    /\ pwith = << >>

-----------------------------------------------------------------------------
(* The container images: the CMD and EXPOSE instructions of each Dockerfile,
   character by character, and the start of the container *)

Dockerfile_nvcr_expose_8080 ==
    << "C", "M", "D", " ", "[", "\"", "j", "u", "p", "y", "t", "e", "r", "\"", ",",
       " ", "\"", "n", "o", "t", "e", "b", "o", "o", "k", "\"", ",", " ", "\"", "-",
       "-", "i", "p", "=", "0", ".", "0", ".", "0", ".", "0", "\"", ",", " ", "\"",
       "-", "-", "p", "o", "r", "t", "=", "8", "8", "8", "8", "\"", ",", " ", "\"",
       "-", "-", "a", "l", "l", "o", "w", "-", "r", "o", "o", "t", "\"", ",", " ",
       "\"", "-", "-", "n", "o", "-", "b", "r", "o", "w", "s", "e", "r", "\"", "]",
       "\n", "E", "X", "P", "O", "S", "E", " ", "8", "0", "8", "0" >>
\* the Dockerfile FROM nvcr.io/nvidia/pytorch
Dockerfile_nvcr ==
    << "C", "M", "D", " ", "[", "\"", "j", "u", "p", "y", "t", "e", "r", "\"", ",",
       " ", "\"", "n", "o", "t", "e", "b", "o", "o", "k", "\"", ",", " ", "\"", "-",
       "-", "i", "p", "=", "0", ".", "0", ".", "0", ".", "0", "\"", ",", " ", "\"",
       "-", "-", "p", "o", "r", "t", "=", "8", "8", "8", "8", "\"", ",", " ", "\"",
       "-", "-", "a", "l", "l", "o", "w", "-", "r", "o", "o", "t", "\"", ",", " ",
       "\"", "-", "-", "n", "o", "-", "b", "r", "o", "w", "s", "e", "r", "\"", "]",
       "\n", "E", "X", "P", "O", "S", "E", " ", "8", "8", "8", "8" >>

\* the Dockerfile FROM pytorch/pytorch
Dockerfile_pytorch ==
    << "C", "M", "D", " ", "[", " ", "\"", "j", "u", "p", "y", "t", "e", "r", "\"",
       ",", " ", "\"", "n", "o", "t", "e", "b", "o", "o", "k", "\"", ",", " ", "\"",
       "-", "-", "p", "o", "r", "t", "=", "8", "8", "8", "8", "\"", ",", " ", "\"",
       "-", "-", "n", "o", "-", "b", "r", "o", "w", "s", "e", "r", "\"", ",", "\\",
       "\n", " ", " ", " ", " ", "\"", "-", "-", "i", "p", "=", "0", ".", "0", ".",
       "0", ".", "0", "\"", ",", " ", "\"", "-", "-", "a", "l", "l", "o", "w", "-",
       "r", "o", "o", "t", "\"", "]", "\n", "\n", "E", "X", "P", "O", "S", "E", " ",
       "8", "8", "8", "8" >>

Dockerfile(i) == IF i = "nvcr" THEN Dockerfile_nvcr ELSE Dockerfile_pytorch

\* one character of an instruction. After the keyword come the arguments: a
\* JSON array of strings (exec form) or plain words; a backslash at the end
\* of a line continues the instruction on the next line.
LexStep(l, c) ==
    IF l.mode = "keyword" THEN
        IF c = " " THEN [l EXCEPT !.mode = "args"]
        ELSE IF c = "\n" THEN [l EXCEPT !.mode = "eol"]
        ELSE [l EXCEPT !.word = Append(@, c)]
    ELSE IF l.mode = "string" THEN
        IF c = "\"" THEN [l EXCEPT !.mode = "args", !.items = Append(@, l.tok),
                                   !.tok = << >>]
        ELSE [l EXCEPT !.tok = Append(@, c)]
    ELSE IF l.mode = "plain" THEN
        IF c = " " THEN [l EXCEPT !.mode = "args", !.items = Append(@, l.tok),
                                  !.tok = << >>]
        ELSE IF c = "\n" THEN [l EXCEPT !.mode = "eol", !.items = Append(@, l.tok),
                                        !.tok = << >>]
        ELSE [l EXCEPT !.tok = Append(@, c)]
    ELSE IF l.mode = "escape" THEN
        IF c = "\n" THEN [l EXCEPT !.mode = "args"]
        ELSE [l EXCEPT !.mode = "plain", !.tok = << "\\", c >>]
    ELSE \* "args"
        IF c = "\\" THEN [l EXCEPT !.mode = "escape"]
        ELSE IF c = "\n" THEN [l EXCEPT !.mode = "eol"]
        ELSE IF c = " " \/ c = "," THEN l
        ELSE IF c = "[" THEN [l EXCEPT !.opened = TRUE]
        ELSE IF c = "]" THEN [l EXCEPT !.closed = TRUE]
        ELSE IF c = "\"" THEN [l EXCEPT !.mode = "string"]
        ELSE [l EXCEPT !.mode = "plain", !.tok = << c >>]

\* the end of the file ends the last instruction
LexEnd(l) ==
    IF l.mode = "plain"
    THEN [l EXCEPT !.mode = "eol", !.items = Append(@, l.tok), !.tok = << >>]
    ELSE [l EXCEPT !.mode = "eol"]

DigitValue(c) ==
    CASE c = "0" -> 0 [] c = "1" -> 1 [] c = "2" -> 2 [] c = "3" -> 3 [] c = "4" -> 4
      [] c = "5" -> 5 [] c = "6" -> 6 [] c = "7" -> 7 [] c = "8" -> 8 [] c = "9" -> 9

IsNumber(w) ==
    w # << >> /\ \A i \in DOMAIN w :
        w[i] \in {"0", "1", "2", "3", "4", "5", "6", "7", "8", "9"}

\* int(w)
RECURSIVE ToInt(_)
ToInt(w) ==
    IF w = << >> THEN 0
    ELSE 10 * ToInt(SubSeq(w, 1, Len(w) - 1)) + DigitValue(w[Len(w)])

\* position of the first "=" of an argument (0: none)
EqualsAt(w) ==
    IF \E i \in DOMAIN w : w[i] = "="
    THEN CHOOSE i \in DOMAIN w : w[i] = "=" /\ \A j \in 1 .. i - 1 : w[j] # "="
    ELSE 0

InitImage ==
    /\ image \in {"nvcr", "pytorch"}
    /\ dpc = "build" /\ di = 0 /\ lex = NoLex
    /\ cmd = << >> /\ exposed = {} /\ dai = 0 /\ server = NoServer
    /\ QuickOff /\ DLOff /\ NetOff /\ ProfilerOff /\ BuildOff

\* docker build reads the next character of the Dockerfile
Scan ==
    /\ dpc = "build" /\ lex.mode # "eol"
    /\ IF di < Len(Dockerfile(image))
       THEN lex' = LexStep(lex, Dockerfile(image)[di + 1]) /\ di' = di + 1
       ELSE lex' = LexEnd(lex) /\ di' = di
    /\ UNCHANGED <<image, dpc, cmd, exposed, dai, server, notImage>>

\* the instruction read is recorded in the image; after the last one the
\* image is complete and `docker run` starts a container from it
Commit ==
    /\ dpc = "build" /\ lex.mode = "eol"
    /\ cmd' = (IF lex.word = << "C", "M", "D" >>
               THEN (IF lex.opened /\ lex.closed THEN lex.items
                     ELSE << << "/", "b", "i", "n", "/", "s", "h" >>, << "-", "c" >> >>
                          \o lex.items)
               ELSE cmd)
    /\ exposed' = (IF lex.word = << "E", "X", "P", "O", "S", "E" >>
                   THEN exposed \cup { ToInt(w) : w \in { lex.items[i] : i \in
                            { j \in DOMAIN lex.items : IsNumber(lex.items[j]) } } }
                   ELSE exposed)
    /\ lex' = NoLex
    /\ dpc' = (IF di < Len(Dockerfile(image)) THEN "build" ELSE "run")
    /\ UNCHANGED <<image, di, dai, server, notImage>>

\* the container executes CMD: `jupyter notebook` with its defaults
Exec ==
    /\ dpc = "run" /\ dai = 0
    /\ IF Len(cmd) >= 2 /\ cmd[1] = << "j", "u", "p", "y", "t", "e", "r" >>
          /\ cmd[2] = << "n", "o", "t", "e", "b", "o", "o", "k" >>
       THEN /\ server' = [ip |-> << "l", "o", "c", "a", "l", "h", "o", "s", "t" >>,
                          port |-> 8888, open_browser |-> TRUE, allow_root |-> FALSE]
            /\ dai' = 2 /\ dpc' = dpc
       ELSE dpc' = "error" /\ UNCHANGED <<server, dai>>
    /\ UNCHANGED <<image, di, lex, cmd, exposed, notImage>>

\* the next command-line argument: --name=value or --flag
ParseArg ==
    /\ dpc = "run" /\ dai >= 2 /\ dai < Len(cmd)
    /\ LET a == cmd[dai + 1]
           eq == EqualsAt(a)
           name == IF eq = 0 THEN SubSeq(a, 3, Len(a)) ELSE SubSeq(a, 3, eq - 1)
           value == SubSeq(a, eq + 1, Len(a))
       IN IF Len(a) < 3 \/ SubSeq(a, 1, 2) # << "-", "-" >>
          THEN dpc' = "error" /\ UNCHANGED server
          ELSE IF eq # 0 /\ name = << "i", "p" >>
          THEN server' = [server EXCEPT !.ip = value] /\ dpc' = dpc
          ELSE IF eq # 0 /\ name = << "p", "o", "r", "t" >> /\ IsNumber(value)
          THEN server' = [server EXCEPT !.port = ToInt(value)] /\ dpc' = dpc
          ELSE IF eq = 0 /\ name = << "a", "l", "l", "o", "w", "-", "r", "o", "o", "t" >>
          THEN server' = [server EXCEPT !.allow_root = TRUE] /\ dpc' = dpc
          ELSE IF eq = 0 /\ name = << "n", "o", "-", "b", "r", "o", "w", "s", "e", "r" >>
          THEN server' = [server EXCEPT !.open_browser = FALSE] /\ dpc' = dpc
          ELSE dpc' = "error" /\ UNCHANGED server
    /\ dai' = dai + 1
    /\ UNCHANGED <<image, di, lex, cmd, exposed, notImage>>

\* the server starts: as root (the container's user) only with --allow-root
Listen ==
    /\ dpc = "run" /\ dai >= 2 /\ dai = Len(cmd)
    /\ dpc' = (IF server.allow_root THEN "listening" ELSE "refused")
    /\ UNCHANGED <<image, di, lex, cmd, exposed, dai, server, notImage>>

NextImage == Scan \/ Commit \/ Exec \/ ParseArg \/ Listen

SpecImage == InitImage /\ [][NextImage]_vars

\* C6: both images start, as their CMD, a Jupyter notebook server on port
\* 8888 on all interfaces with --no-browser and --allow-root, and the port
\* each image EXPOSEs is the port its CMD listens on.
C6_NotebookServerOn8888 ==
    /\ dpc \notin {"error", "refused"}
    /\ dpc \in {"run", "listening"} =>
          /\ Len(cmd) = 6
          /\ cmd[1] = << "j", "u", "p", "y", "t", "e", "r" >>
          /\ cmd[2] = << "n", "o", "t", "e", "b", "o", "o", "k" >>
          /\ { cmd[i] : i \in 3 .. 6 } =
                { << "-", "-", "i", "p", "=", "0", ".", "0", ".", "0", ".", "0" >>,
                  << "-", "-", "p", "o", "r", "t", "=", "8", "8", "8", "8" >>,
                  << "-", "-", "a", "l", "l", "o", "w", "-", "r", "o", "o", "t" >>,
                  << "-", "-", "n", "o", "-", "b", "r", "o", "w", "s", "e", "r" >> }
          /\ exposed = {8888}
    /\ dpc = "listening" =>
          /\ server.ip = << "0", ".", "0", ".", "0", ".", "0" >>
          /\ server.port = 8888
          /\ server.allow_root /\ ~server.open_browser
          /\ exposed = {server.port}

\* the container of the pytorch/pytorch image is up
C6_Witness ==
    /\ image = "pytorch" /\ dpc = "listening"
    /\ server.port = 8888 /\ exposed = {8888}

-----------------------------------------------------------------------------
(* docker build: the RUN pip install instruction of each Dockerfile, read
   character by character, run by /bin/sh -c, and parsed by pip *)

\* RUN pip install ... of the Dockerfile FROM pytorch/pytorch
RunPip_pytorch ==
    << "R", "U", "N", " ", "p", "i", "p", " ", "i", "n", "s", "t", "a", "l", "l",
       " ", "\\", "\n", " ", " ", " ", " ", "h", "5", "p", "y", " ", "\\", "\n",
       " ", " ", " ", " ", "i", "p", "y", "k", "e", "r", "n", "e", "l", ">", "=",
       "6", ".", "0", ".", "0", " ", "\\", "\n", " ", " ", " ", " ", "n", "o", "t",
       "e", "b", "o", "o", "k", " ", "\\", "\n", " ", " ", " ", " ", "n", "u", "m",
       "p", "y", " ", "\\", "\n", " ", " ", " ", " ", "p", "a", "n", "d", "a", "s",
       " ", "\\", "\n", " ", " ", " ", " ", "s", "c", "i", "p", "y", " ", "\\",
       "\n", " ", " ", " ", " ", "s", "e", "a", "b", "o", "r", "n", "\n" >>

\* RUN pip install ... of the Dockerfile FROM nvcr.io/nvidia/pytorch
RunPip_nvcr ==
    << "R", "U", "N", " ", "p", "i", "p", " ", "i", "n", "s", "t", "a", "l", "l",
       " ", "\\", "\n", " ", " ", " ", " ", "j", "u", "p", "y", "t", "e", "r", "l",
       "a", "b", " ", "\\", "\n", " ", " ", " ", " ", "i", "p", "y", "k", "e", "r",
       "n", "e", "l", " ", "\\", "\n", " ", " ", " ", " ", "i", "p", "y", "w", "i",
       "d", "g", "e", "t", "s", "\n" >>

RunPip(f) == IF f = "nvcr" THEN RunPip_nvcr ELSE RunPip_pytorch

\* one character of a shell-form instruction: after the keyword everything
\* up to the end of the line is the command; a backslash followed by the end
\* of the line is removed and the instruction continues on the next line
RunStep(r, c) ==
    IF r.mode = "keyword" THEN
        IF c = " " THEN [r EXCEPT !.mode = "args"]
        ELSE IF c = "\n" THEN [r EXCEPT !.mode = "eol"]
        ELSE [r EXCEPT !.word = Append(@, c)]
    ELSE IF r.mode = "escape" THEN
        IF c = "\n" THEN [r EXCEPT !.mode = "args"]
        ELSE [r EXCEPT !.mode = "args", !.text = @ \o << "\\", c >>]
    ELSE \* "args"
        IF c = "\\" THEN [r EXCEPT !.mode = "escape"]
        ELSE IF c = "\n" THEN [r EXCEPT !.mode = "eol"]
        ELSE [r EXCEPT !.text = Append(@, c)]

\* one character of the command in /bin/sh: blanks separate words; an
\* unquoted > ends the word before it (digits alone before it are the file
\* descriptor) and makes the next word the file the output is redirected to
\* (the commands have no quote, no other operator and no expansion)
ShStep(s, c) ==
    IF s.mode = "word" THEN
        IF c = " " THEN [s EXCEPT !.mode = "blank", !.words = Append(@, s.tok),
                                  !.tok = << >>]
        ELSE IF c = ">" THEN
            IF IsNumber(s.tok)
            THEN [s EXCEPT !.mode = "redirect", !.fd = s.tok, !.tok = << >>]
            ELSE [s EXCEPT !.mode = "redirect", !.words = Append(@, s.tok),
                           !.fd = << "1" >>, !.tok = << >>]
        ELSE [s EXCEPT !.tok = Append(@, c)]
    ELSE IF s.mode = "redirect" THEN
        IF c = " " THEN s
        ELSE [s EXCEPT !.mode = "target", !.tok = << c >>]
    ELSE IF s.mode = "target" THEN
        IF c = " " THEN [s EXCEPT !.mode = "blank", !.target = s.tok, !.tok = << >>]
        ELSE [s EXCEPT !.tok = Append(@, c)]
    ELSE \* "blank"
        IF c = " " THEN s
        ELSE IF c = ">" THEN [s EXCEPT !.mode = "redirect", !.fd = << "1" >>]
        ELSE [s EXCEPT !.mode = "word", !.tok = << c >>]

\* the end of the command ends its last word
ShEnd(s) ==
    IF s.mode = "word"
    THEN [s EXCEPT !.mode = "blank", !.words = Append(@, s.tok), !.tok = << >>]
    ELSE IF s.mode = "target"
    THEN [s EXCEPT !.mode = "blank", !.target = s.tok, !.tok = << >>]
    ELSE s

\* characters that start a version specifier of a requirement
SpecifierChars == {"<", ">", "=", "!", "~"}

\* position of the first character of w that is in set S (Len(w) + 1: none)
FirstIn(w, S) ==
    IF \E i \in DOMAIN w : w[i] \in S
    THEN CHOOSE i \in DOMAIN w : w[i] \in S /\ \A j \in 1 .. i - 1 : w[j] \notin S
    ELSE Len(w) + 1

\* pip's reading of one argument as a requirement: a name, then optionally a
\* comparison operator and a version
Requirement(w) ==
    LET a == FirstIn(w, SpecifierChars)
        rest == SubSeq(w, a, Len(w))
        b == FirstIn(rest, { c \in { rest[i] : i \in DOMAIN rest } :
                                 c \notin SpecifierChars })
    IN [name |-> SubSeq(w, 1, a - 1),
        op |-> SubSeq(rest, 1, b - 1),
        version |-> SubSeq(rest, b, Len(rest))]

InitBuild ==
    /\ bfile \in {"nvcr", "pytorch"}
    /\ bpc = "read" /\ bi = 0 /\ run = NoRun /\ sh = NoSh
    /\ argv = << >> /\ stdout = << >> /\ requirements = << >>
    /\ QuickOff /\ DLOff /\ NetOff /\ ImageOff /\ ProfilerOff

\* docker build reads the next character of the instruction
Read ==
    /\ bpc = "read" /\ run.mode # "eol"
    /\ IF bi < Len(RunPip(bfile))
       THEN run' = RunStep(run, RunPip(bfile)[bi + 1]) /\ bi' = bi + 1
       ELSE run' = [run EXCEPT !.mode = "eol"] /\ bi' = bi
    /\ UNCHANGED <<bfile, bpc, sh, argv, stdout, requirements, notBuild>>

\* RUN <command>: the command is run as /bin/sh -c "<command>"
Shell ==
    /\ bpc = "read" /\ run.mode = "eol"
    /\ bpc' = (IF run.word = << "R", "U", "N" >> THEN "sh" ELSE "error")
    /\ bi' = 0
    /\ UNCHANGED <<bfile, run, sh, argv, stdout, requirements, notBuild>>

\* the shell reads the next character of the command
ShScan ==
    /\ bpc = "sh" /\ bi < Len(run.text)
    /\ sh' = ShStep(sh, run.text[bi + 1])
    /\ bi' = bi + 1
    /\ UNCHANGED <<bfile, bpc, run, argv, stdout, requirements, notBuild>>

\* the shell opens the redirection and executes the words as a program with
\* its arguments
ShExec ==
    /\ bpc = "sh" /\ bi = Len(run.text)
    /\ sh' = ShEnd(sh)
    /\ argv' = sh'.words
    /\ stdout' = sh'.target
    /\ IF Len(argv') >= 2 /\ argv'[1] = << "p", "i", "p" >>
          /\ argv'[2] = << "i", "n", "s", "t", "a", "l", "l" >>
       THEN bpc' = "pip" /\ bi' = 2
       ELSE bpc' = "error" /\ bi' = 0
    /\ UNCHANGED <<bfile, run, requirements, notBuild>>

\* pip install parses its next argument
PipParse ==
    /\ bpc = "pip" /\ bi < Len(argv)
    /\ requirements' = Append(requirements, Requirement(argv[bi + 1]))
    /\ bi' = bi + 1
    /\ UNCHANGED <<bfile, bpc, run, sh, argv, stdout, notBuild>>

\* pip resolves and installs what it was asked for
PipInstall ==
    /\ bpc = "pip" /\ bi = Len(argv)
    /\ bpc' = "done"
    /\ UNCHANGED <<bfile, bi, run, sh, argv, stdout, requirements, notBuild>>

NextBuild == Read \/ Shell \/ ShScan \/ ShExec \/ PipParse \/ PipInstall

SpecBuild == InitBuild /\ [][NextBuild]_vars

ipykernel == << "i", "p", "y", "k", "e", "r", "n", "e", "l" >>

\* C13: the RUN pip install step of the pytorch/pytorch image hands pip the
\* requirement ipykernel>=6.0.0: once pip has its requirements, the one
\* named ipykernel carries the operator >= and the version 6.0.0.
C13_ConstraintReachesPip ==
    (bfile = "pytorch" /\ bpc = "done") =>
        \E i \in DOMAIN requirements :
            requirements[i] = [name |-> ipykernel, op |-> << ">", "=" >>,
                               version |-> << "6", ".", "0", ".", "0" >>]

====
